---- MODULE Spec2Model ----
(***************************************************************************)
(* Model of the Express pagination / security-middleware test server       *)
(* (app.js).  The module-level collections users and products, the        *)
(* paginate helper and the query endpoints are translated from the source; *)
(* strings are TLA+ strings handled character by character, so that        *)
(* parseInt, toLowerCase, includes and template formatting are computed,   *)
(* not assumed.                                                            *)
(***************************************************************************)
EXTENDS Integers, Sequences, FiniteSets, TLC

VARIABLES users, products, req, res, fed, client, hits

vars == <<users, products, req, res, fed, client, hits>>

(***************************************************************************)
(* Bounds of the model.                                                    *)
(***************************************************************************)
\* Math.random outcomes are drawn from the family Random(seed, ...), seed in 0..MaxSeed
MaxSeed == 1
\* paginate is applied directly to every sequence over 1..2 of length <= MaxLen
MaxLen == 3
\* ... and to every page in 1..MaxPage
MaxPage == 4
\* users appended (by the environment) during a cursor walk
MaxAppend == 2

(***************************************************************************)
(* Program constants.                                                      *)
(***************************************************************************)
NumUsers == 100
NumProducts == 50
DefaultPage == 1
DefaultLimit == 10
MaxLimit == 50
DefaultCursor == 0
DefaultMinPrice == 0

(***************************************************************************)
(* Strings.                                                                *)
(***************************************************************************)
CharAt(s, i) == SubSeq(s, i, i)

DigitChars == "0123456789"
UpperChars == "ABCDEFGHIJKLMNOPQRSTUVWXYZ"
LowerChars == "abcdefghijklmnopqrstuvwxyz"

DigitSet == {CharAt(DigitChars, d) : d \in 1..10}

\* the value of each decimal digit
DigitValue ==
  [c \in DigitSet |-> (CHOOSE d \in 1..10 : CharAt(DigitChars, d) = c) - 1]

IsDigit(c) == c \in DigitSet

DigitVal(c) == DigitValue[c]

\* String(n) / `${n}` for an integer n
RECURSIVE NatToString(_)
NatToString(n) ==
  IF n < 10 THEN CharAt(DigitChars, n + 1)
  ELSE NatToString(n \div 10) \o CharAt(DigitChars, (n % 10) + 1)

NumberToString(n) == IF n < 0 THEN "-" \o NatToString(-n) ELSE NatToString(n)

UpperSet == {CharAt(UpperChars, k) : k \in 1..26}

\* the lower-case letter of each upper-case letter
LowerOf ==
  [c \in UpperSet |->
     CharAt(LowerChars, CHOOSE k \in 1..26 : CharAt(UpperChars, k) = c)]

\* String.prototype.toLowerCase on one character
ToLowerChar(c) == IF c \in UpperSet THEN LowerOf[c] ELSE c

RECURSIVE toLowerCase(_)
toLowerCase(s) ==
  IF Len(s) = 0 THEN ""
  ELSE ToLowerChar(CharAt(s, 1)) \o toLowerCase(SubSeq(s, 2, Len(s)))

\* String.prototype.includes
includes(s, t) ==
  \E i \in 1..(Len(s) - Len(t) + 1) : SubSeq(s, i, i + Len(t) - 1) = t

(***************************************************************************)
(* JavaScript numbers as far as the handlers use them: an integer, NaN or  *)
(* Infinity.                                                               *)
(***************************************************************************)
NaN == [kind |-> "nan", n |-> 0]
Infinity == [kind |-> "inf", n |-> 0]
Num(n) == [kind |-> "num", n |-> n]

\* truthiness of a number: NaN and 0 are falsy
Truthy(v) == v.kind = "inf" \/ (v.kind = "num" /\ v.n # 0)

\* the expression  v || d
OrDefault(v, d) == IF Truthy(v) THEN v ELSE d

\* a <= b on numbers (a an integer)
LeqNum(a, b) == b.kind = "inf" \/ (b.kind = "num" /\ a <= b.n)

RECURSIVE SkipWhite(_, _)
SkipWhite(s, i) ==
  IF i <= Len(s) /\ CharAt(s, i) = " " THEN SkipWhite(s, i + 1) ELSE i

RECURSIVE ScanDigits(_, _, _)
ScanDigits(s, i, acc) ==
  IF i > Len(s) \/ ~IsDigit(CharAt(s, i)) THEN acc
  ELSE ScanDigits(s, i + 1, acc * 10 + DigitVal(CharAt(s, i)))

\* parseInt(string): leading white space, an optional sign, then the longest
\* prefix of decimal digits; NaN when there is no digit
parseInt(s) ==
  LET i == SkipWhite(s, 1)
      signed == i <= Len(s) /\ CharAt(s, i) \in {"-", "+"}
      neg == i <= Len(s) /\ CharAt(s, i) = "-"
      j == IF signed THEN i + 1 ELSE i
  IN  IF j > Len(s) \/ ~IsDigit(CharAt(s, j)) THEN NaN
      ELSE Num((IF neg THEN -1 ELSE 1) * ScanDigits(s, j, 0))

\* req.query: a function from the parameter names present to their text
NoQuery == [k \in {} |-> ""]

Has(query, k) == k \in DOMAIN query

\* parseInt(req.query.k): an absent parameter is undefined, which parses to NaN
parseIntParam(query, k) == IF Has(query, k) THEN parseInt(query[k]) ELSE NaN

\* req.query.k || d for a string parameter: absent and "" are falsy
StringParam(query, k, d) ==
  IF Has(query, k) /\ query[k] # "" THEN query[k] ELSE d

(***************************************************************************)
(* Mock data.  Math.random is a draw from a bounded family of outcomes     *)
(* indexed by a seed; Random(seed, k, n) stands for                        *)
(* Math.floor(Math.random() * n) at the k-th call.                         *)
(***************************************************************************)
Random(seed, k, n) == ((k * k + (seed + 1) * 31 * k + seed * 17) % 1009) % n

Cities == <<"New York", "Los Angeles", "Chicago", "Houston", "Phoenix">>

Categories == <<"Electronics", "Clothing", "Books", "Food", "Toys">>

\* the element built for index i (from 0) of the users array
MockUser(seed, i) ==
  [id |-> i + 1,
   name |-> "User" \o NumberToString(i + 1),
   email |-> "user" \o NumberToString(i + 1) \o "@example.com",
   age |-> Random(seed, 2 * i, 50) + 18,
   city |-> Cities[Random(seed, 2 * i + 1, 5) + 1]]

MockUsers(seed) == [k \in 1..NumUsers |-> MockUser(seed, k - 1)]

\* the element built for index i (from 0) of the products array
MockProduct(seed, i) ==
  [id |-> i + 1,
   name |-> "Product " \o NumberToString(i + 1),
   price |-> Random(seed, 3 * i + 1000, 1000) + 10,
   category |-> Categories[Random(seed, 3 * i + 1001, 5) + 1],
   stock |-> Random(seed, 3 * i + 1002, 100)]

MockProducts(seed) == [k \in 1..NumProducts |-> MockProduct(seed, k - 1)]

(***************************************************************************)
(* Arrays are sequences (index i of JavaScript is index i + 1 here);        *)
(* Array.prototype.filter is SelectSeq.                                     *)
(***************************************************************************)
Min(a, b) == IF a < b THEN a ELSE b

Max(a, b) == IF a > b THEN a ELSE b

\* Array.prototype.slice(start, end), negative indices counting from the end
Slice(array, start, end) ==
  LET len == Len(array)
      k == IF start < 0 THEN Max(len + start, 0) ELSE Min(start, len)
      final == IF end < 0 THEN Max(len + end, 0) ELSE Min(end, len)
  IN  SubSeq(array, k + 1, final)

\* Math.ceil(a / b) for integers a >= 0 and b # 0
Ceil(a, b) == IF b > 0 THEN (a + b - 1) \div b ELSE -(a \div (-b))

\* paginate counting pages from 0
paginateZeroBased(array, page, limit) ==
  LET startIndex == page * limit
      endIndex == (page + 1) * limit
  IN  [total |-> Len(array), totalPages |-> Ceil(Len(array), limit),
       currentPage |-> page, limit |-> limit,
       data |-> Slice(array, startIndex, endIndex)]
        @@ (IF endIndex < Len(array)
            THEN [next |-> [page |-> page + 1, limit |-> limit]] ELSE NoQuery)
        @@ (IF startIndex > 0
            THEN [previous |-> [page |-> page - 1, limit |-> limit]]
            ELSE NoQuery)

\* paginate offering next whenever the page is full (endIndex <= length)
paginateNextInclusive(array, page, limit) ==
  LET startIndex == (page - 1) * limit
      endIndex == page * limit
  IN  [total |-> Len(array), totalPages |-> Ceil(Len(array), limit),
       currentPage |-> page, limit |-> limit,
       data |-> Slice(array, startIndex, endIndex)]
        @@ (IF endIndex <= Len(array)
            THEN [next |-> [page |-> page + 1, limit |-> limit]] ELSE NoQuery)
        @@ (IF startIndex > 0
            THEN [previous |-> [page |-> page - 1, limit |-> limit]]
            ELSE NoQuery)

\* paginate counting whole pages only
paginateTotalPagesFloor(array, page, limit) ==
  LET startIndex == (page - 1) * limit
      endIndex == page * limit
      results == [total |-> Len(array),
                  totalPages |-> Len(array) \div limit,
                  currentPage |-> page,
                  limit |-> limit]
      next == IF endIndex < Len(array)
              THEN [next |-> [page |-> page + 1, limit |-> limit]]
              ELSE NoQuery
      previous == IF startIndex > 0
                  THEN [previous |-> [page |-> page - 1, limit |-> limit]]
                  ELSE NoQuery
  IN  results @@ next @@ previous
        @@ [data |-> Slice(array, startIndex, endIndex)]

(***************************************************************************)
(* function paginate(array, page, limit)                                   *)
(***************************************************************************)
paginate(array, page, limit) ==
  LET startIndex == (page - 1) * limit
      endIndex == page * limit
      results == [total |-> Len(array),
                  totalPages |-> Ceil(Len(array), limit),
                  currentPage |-> page,
                  limit |-> limit]
      next == IF endIndex < Len(array)
              THEN [next |-> [page |-> page + 1, limit |-> limit]]
              ELSE NoQuery
      previous == IF startIndex > 0
                  THEN [previous |-> [page |-> page - 1, limit |-> limit]]
                  ELSE NoQuery
  IN  results @@ next @@ previous
        @@ [data |-> Slice(array, startIndex, endIndex)]

(***************************************************************************)
(* Responses.  res.status(400).json(body) and res.json(body).              *)
(***************************************************************************)
NoResponse == [status |-> 0, body |-> NoQuery]

\* the route of the request matches and the request is not answered yet
Routed(path) == req.path = path /\ res = NoResponse

Json(body) == [status |-> 200, body |-> body]

BadRequest(message) == [status |-> 400, body |-> [error |-> message]]

\* the array handed to paginate by the handler, when it got that far
NotFed == [called |-> FALSE, array |-> <<>>]

Fed(array) == [called |-> TRUE, array |-> array]

\* page and limit as every offset handler reads them
PageOf(query) == OrDefault(parseIntParam(query, "page"), Num(DefaultPage)).n

LimitOf(query) == OrDefault(parseIntParam(query, "limit"), Num(DefaultLimit)).n

(***************************************************************************)
(* 1, 2. GET /api/users and GET /api/products                              *)
(***************************************************************************)
\* the validation both handlers share; an outcome of NoResponse means "valid"
Validate(page, limit) ==
  IF page < 1 \/ limit < 1
  THEN BadRequest("Page and limit must be positive numbers")
  ELSE IF limit > MaxLimit
       THEN BadRequest("Limit cannot exceed 50")
       ELSE NoResponse

GetApiUsers ==
  /\ Routed("/api/users")
  /\ LET page == PageOf(req.query)
         limit == LimitOf(req.query)
         invalid == Validate(page, limit)
     IN  IF invalid # NoResponse
         THEN res' = invalid /\ fed' = NotFed
         ELSE res' = Json(paginate(users, page, limit)) /\ fed' = Fed(users)
  /\ UNCHANGED <<users, products, req, client, hits>>

GetApiProducts ==
  /\ Routed("/api/products")
  /\ LET page == PageOf(req.query)
         limit == LimitOf(req.query)
         invalid == Validate(page, limit)
     IN  IF invalid # NoResponse
         THEN res' = invalid /\ fed' = NotFed
         ELSE res' = Json(paginate(products, page, limit))
              /\ fed' = Fed(products)
  /\ UNCHANGED <<users, products, req, client, hits>>

(***************************************************************************)
(* 3. GET /api/users/search                                                *)
(***************************************************************************)
\* the search filter comparing against the term as typed
SearchFilterCaseSensitive(array, searchTerm) ==
  LET Matches(user) ==
        \/ includes(toLowerCase(user.name), searchTerm)
        \/ includes(toLowerCase(user.email), searchTerm)
        \/ includes(toLowerCase(user.city), searchTerm)
  IN  SelectSeq(array, Matches)

\* users.filter(...) of the search handler
SearchFilter(array, searchTerm) ==
  LET term == toLowerCase(searchTerm)
      Matches(user) ==
        \/ includes(toLowerCase(user.name), term)
        \/ includes(toLowerCase(user.email), term)
        \/ includes(toLowerCase(user.city), term)
  IN  SelectSeq(array, Matches)

GetApiUsersSearch ==
  /\ Routed("/api/users/search")
  /\ LET page == PageOf(req.query)
         limit == LimitOf(req.query)
         searchTerm == StringParam(req.query, "q", "")
     IN  \E filteredUsers \in {SearchFilter(users, searchTerm)} :
           LET result == paginate(filteredUsers, page, limit)
           IN  /\ res' = Json(result @@ [searchTerm |-> searchTerm])
               /\ fed' = Fed(filteredUsers)
  /\ UNCHANGED <<users, products, req, client, hits>>

(***************************************************************************)
(* 4. GET /api/products/filter                                             *)
(***************************************************************************)
MinPriceOf(query) ==
  OrDefault(parseIntParam(query, "minPrice"), Num(DefaultMinPrice))

MaxPriceOf(query) == OrDefault(parseIntParam(query, "maxPrice"), Infinity)

\* the two products.filter(...) calls of the filter handler; hasCategory is
\* the truthiness of req.query.category
AttributeFilter(array, hasCategory, category, minPrice, maxPrice) ==
  LET InRange(product) ==
        product.price >= minPrice.n /\ LeqNum(product.price, maxPrice)
      wanted == toLowerCase(category)
      SameCategory(p) == toLowerCase(p.category) = wanted
      filteredProducts == SelectSeq(array, InRange)
  IN  IF hasCategory THEN SelectSeq(filteredProducts, SameCategory)
      ELSE filteredProducts

GetApiProductsFilter ==
  /\ Routed("/api/products/filter")
  /\ LET page == PageOf(req.query)
         limit == LimitOf(req.query)
         category == StringParam(req.query, "category", "")
         minPrice == MinPriceOf(req.query)
         maxPrice == MaxPriceOf(req.query)
         echoed == IF Has(req.query, "category")
                   THEN [category |-> req.query.category]
                   ELSE NoQuery
     IN  \E filteredProducts \in
              {AttributeFilter(products, category # "", category,
                               minPrice, maxPrice)} :
           LET result == paginate(filteredProducts, page, limit)
           IN  /\ res' = Json(result @@ [filters |->
                      echoed @@ [minPrice |-> minPrice, maxPrice |-> maxPrice]])
               /\ fed' = Fed(filteredProducts)
  /\ UNCHANGED <<users, products, req, client, hits>>

(***************************************************************************)
(* 5. GET /api/products/sorted                                             *)
(***************************************************************************)
\* collation order of the characters that occur in product names and categories
CollationChars ==
  " 0123456789aAbBcCdDeEfFgGhHiIjJkKlLmMnNoOpPqQrRsStTuUvVwWxXyYzZ"

CollationRank ==
  [c \in {CharAt(CollationChars, k) : k \in 1..Len(CollationChars)} |->
     CHOOSE k \in 1..Len(CollationChars) : CharAt(CollationChars, k) = c]

\* String.prototype.localeCompare: negative, zero or positive
RECURSIVE localeCompareFrom(_, _, _)
localeCompareFrom(a, b, i) ==
  IF i > Len(a) /\ i > Len(b) THEN 0
  ELSE IF i > Len(a) THEN -1
  ELSE IF i > Len(b) THEN 1
  ELSE IF CharAt(a, i) = CharAt(b, i) THEN localeCompareFrom(a, b, i + 1)
  ELSE IF CollationRank[CharAt(a, i)] < CollationRank[CharAt(b, i)] THEN -1
  ELSE 1

localeCompare(a, b) == localeCompareFrom(a, b, 1)

NumericFields == {"price", "id", "stock"}

\* the fields of a product that hold a string, so that localeCompare exists
StringFields == {"name", "category"}

\* the comparator handed to sort
comparator(a, b, sortBy, order) ==
  LET comparison == IF sortBy \in NumericFields THEN a[sortBy] - b[sortBy]
                    ELSE localeCompare(a[sortBy], b[sortBy])
  IN  IF order = "desc" THEN -comparison ELSE comparison

\* a sort that puts an element before the equal elements that were ahead of it
StableRankTiesReversed(array, i, sortBy, order) ==
  1 + Cardinality({j \in 1..Len(array) :
        \E c \in {comparator(array[j], array[i], sortBy, order)} :
          c < 0 \/ (c = 0 /\ j > i)})

\* Array.prototype.sort is stable: the place of an element in the result is
\* the number of elements that compare less than it, plus the number of
\* elements that compare equal to it and come before it in the array
StableRank(array, i, sortBy, order) ==
  1 + Cardinality({j \in 1..Len(array) :
        \E c \in {comparator(array[j], array[i], sortBy, order)} :
          c < 0 \/ (c = 0 /\ j < i)})

\* [...array].sort(comparator)
Sort(array, sortBy, order) ==
  CHOOSE sorted \in
    {[p \in 1..Len(array) |-> array[CHOOSE i \in 1..Len(array) : rank[i] = p]] :
       rank \in {[i \in 1..Len(array) |->
                   StableRank(array, i, sortBy, order)]}} : TRUE

\* an exception that leaves the handler: Express answers 500
Thrown(name) == [status |-> 500, body |-> [thrown |-> name]]

\* the handler sorting the shared collection itself, not a copy of it
GetApiProductsSortedInPlace ==
  /\ Routed("/api/products/sorted")
  /\ LET page == PageOf(req.query)
         limit == LimitOf(req.query)
         sortBy == StringParam(req.query, "sortBy", "id")
         order == StringParam(req.query, "order", "asc")
     IN  IF sortBy \notin NumericFields \cup StringFields
         THEN \* a[sortBy] is undefined and has no localeCompare
              res' = Thrown("TypeError") /\ fed' = NotFed
              /\ UNCHANGED products
         ELSE \E sortedProducts \in {Sort(products, sortBy, order)} :
                LET result == paginate(sortedProducts, page, limit)
                IN  /\ res' = Json(result @@ [sorting |->
                                     [sortBy |-> sortBy, order |-> order]])
                    /\ fed' = Fed(sortedProducts)
                    /\ products' = sortedProducts
  /\ UNCHANGED <<users, req, client, hits>>

GetApiProductsSorted ==
  /\ Routed("/api/products/sorted")
  /\ LET page == PageOf(req.query)
         limit == LimitOf(req.query)
         sortBy == StringParam(req.query, "sortBy", "id")
         order == StringParam(req.query, "order", "asc")
     IN  IF sortBy \notin NumericFields \cup StringFields
         THEN \* a[sortBy] is undefined and has no localeCompare
              res' = Thrown("TypeError") /\ fed' = NotFed
         ELSE \E sortedProducts \in {Sort(products, sortBy, order)} :
                LET result == paginate(sortedProducts, page, limit)
                IN  /\ res' = Json(result @@ [sorting |->
                                     [sortBy |-> sortBy, order |-> order]])
                    /\ fed' = Fed(sortedProducts)
  /\ UNCHANGED <<users, products, req, client, hits>>

(***************************************************************************)
(* 6. GET /api/users/cursor                                                *)
(***************************************************************************)
CursorOf(query) ==
  OrDefault(parseIntParam(query, "cursor"), Num(DefaultCursor)).n

\* null
Null == [kind |-> "null", n |-> 0]

\* the shape every variant of the cursor body shares
CursorBody(array, cursor, limit, inclusive, moreAtLimit, keepCursor, byCount) ==
  LET After(user) == IF inclusive THEN user.id >= cursor ELSE user.id > cursor
      filteredUsers == SelectSeq(array, After)
      paginatedUsers == Slice(filteredUsers, 0, limit)
      hasMore == IF moreAtLimit THEN Len(filteredUsers) >= limit
                 ELSE Len(filteredUsers) > limit
      nextCursor == IF Len(paginatedUsers) > 0
                    THEN Num(IF byCount THEN Len(paginatedUsers)
                             ELSE paginatedUsers[Len(paginatedUsers)].id)
                    ELSE Null
  IN  [data |-> paginatedUsers,
       nextCursor |-> IF hasMore \/ keepCursor THEN nextCursor ELSE Null,
       hasMore |-> hasMore]

\* the cursor body keeping nextCursor on the last page
CursorPageKeepsCursor(array, cursor, limit) ==
  CursorBody(array, cursor, limit, FALSE, FALSE, TRUE, FALSE)

\* the cursor body with hasMore = (length >= limit)
CursorPageMoreAtLimit(array, cursor, limit) ==
  CursorBody(array, cursor, limit, FALSE, TRUE, FALSE, FALSE)

\* the cursor body selecting id >= cursor
CursorPageInclusive(array, cursor, limit) ==
  CursorBody(array, cursor, limit, TRUE, FALSE, FALSE, FALSE)

\* the cursor body whose nextCursor is the number of items, not the last id
CursorPageCountCursor(array, cursor, limit) ==
  CursorBody(array, cursor, limit, FALSE, FALSE, FALSE, TRUE)

\* the body the cursor handler sends for an array of users
CursorPage(array, cursor, limit) ==
  LET After(user) == user.id > cursor
      filteredUsers == SelectSeq(array, After)
      paginatedUsers == Slice(filteredUsers, 0, limit)
      hasMore == Len(filteredUsers) > limit
      nextCursor == IF Len(paginatedUsers) > 0
                    THEN Num(paginatedUsers[Len(paginatedUsers)].id)
                    ELSE Null
  IN  [data |-> paginatedUsers,
       nextCursor |-> IF hasMore THEN nextCursor ELSE Null,
       hasMore |-> hasMore]

GetApiUsersCursor ==
  /\ Routed("/api/users/cursor")
  /\ res' = Json(CursorPage(users, CursorOf(req.query), LimitOf(req.query)))
  /\ fed' = NotFed
  /\ UNCHANGED <<users, products, req, client, hits>>

(***************************************************************************)
(* Requests.  A query parameter is absent or carries one of the texts      *)
(* below.                                                                  *)
(***************************************************************************)
Opt(k, texts) == {NoQuery} \cup {(k :> t) : t \in texts}

PageTexts == {"0", "1", "2", "3", "10", "11", "-1", "abc", "2x"}

LimitTexts == {"0", "1", "10", "25", "50", "51", "-5", "abc"}

FewPageTexts == {"1", "2", "0", "-1"}

FewLimitTexts == {"3", "50", "51", "0", "-2"}

SearchTexts ==
  {"", "user", "USER", "User1", "uSeR1", "User 1", "chicago", "CHICAGO",
   "new york", "1@EXAMPLE.com", "Tokyo"}

CategoryTexts == {"", "Electronics", "electronics", "BOOKS", "Invalid"}

MinPriceTexts == {"0", "100", "600", "-5", "abc"}

MaxPriceTexts == {"0", "100", "500", "abc"}

SortByTexts == {"id", "name", "price", "stock", "category", "color"}

OrderTexts == {"asc", "desc", "DESC"}

CursorTexts == {"0", "10", "95", "99", "100", "150", "-3", "abc"}

CursorLimitTexts == {"0", "1", "5", "10", "200", "-1", "-100", "abc"}

PageQueries == {p @@ l : p \in Opt("page", PageTexts),
                         l \in Opt("limit", LimitTexts)}

FewPageQueries == {p @@ l : p \in Opt("page", FewPageTexts),
                            l \in Opt("limit", FewLimitTexts)}

Request(path, queries) == {[path |-> path, query |-> q] : q \in queries}

Requests ==
  Request("/api/users", PageQueries)
    \cup Request("/api/products", PageQueries)
    \cup Request("/api/users/search",
           {q @@ pl : q \in Opt("q", SearchTexts), pl \in FewPageQueries})
    \cup Request("/api/products/filter",
           {c @@ lo @@ hi @@ pl :
              c \in Opt("category", CategoryTexts),
              lo \in Opt("minPrice", MinPriceTexts),
              hi \in Opt("maxPrice", MaxPriceTexts),
              pl \in FewPageQueries})
    \cup Request("/api/products/sorted",
           {f @@ o @@ pl : f \in Opt("sortBy", SortByTexts),
                           o \in Opt("order", OrderTexts),
                           pl \in FewPageQueries})
    \cup Request("/api/users/cursor",
           {c @@ l : c \in Opt("cursor", CursorTexts),
                     l \in Opt("limit", CursorLimitTexts)})
    \cup Request("/", {NoQuery})

NoRequest == [path |-> "", query |-> NoQuery]

\* no client is walking the cursor endpoint
NoClient == [phase |-> "off", limit |-> 0, cursor |-> 0,
             received |-> <<>>, snapshot |-> {}]

\* the rate limiters' stores hold no hits of the client
NoHits == [general |-> 0, strict |-> 0]

(***************************************************************************)
(* GET /.  Two handlers are registered for the path, in this order; Express *)
(* runs the handlers that match a request in registration order, and one   *)
(* that answers without calling next() ends the dispatch.                  *)
(***************************************************************************)
RootHandlers == <<"Pagination Testing API", "Server is running!">>

\* values of new Date().toISOString()
Clock == {"2026-01-19T10:00:00.000Z", "2026-01-19T10:00:01.000Z"}

RootBody(handler, now) ==
  IF handler = "Pagination Testing API"
  THEN [message |-> "Pagination Testing API",
        endpoints |-> <<"GET /api/users - Paginated users list",
                        "GET /api/products - Paginated products list",
                        "GET /api/users/search - Search users with pagination",
                        "GET /api/products/filter - Filter products with pagination">>]
  ELSE [message |-> "Server is running!", timestamp |-> now]

GetRoot ==
  /\ Routed("/")
  /\ \E now \in Clock : res' = Json(RootBody(Head(RootHandlers), now))
  /\ fed' = NotFed
  /\ UNCHANGED <<users, products, req, client, hits>>

(***************************************************************************)
(* The server answering one request: the collections as generated at       *)
(* process start, any request, and the handler of its route.               *)
(***************************************************************************)
Init ==
  /\ \E seed \in 0..MaxSeed :
       users = MockUsers(seed) /\ products = MockProducts(seed)
  /\ req \in Requests
  /\ res = NoResponse
  /\ fed = NotFed
  /\ client = NoClient
  /\ hits = NoHits

Next ==
  \/ GetApiUsers
  \/ GetApiProducts
  \/ GetApiUsersSearch
  \/ GetApiProductsFilter
  \/ GetApiProductsSorted
  \/ GetApiUsersCursor
  \/ GetRoot

Spec == Init /\ [][Next]_vars

(***************************************************************************)
(* paginate called directly: every small sequence and the two collections, *)
(* pages and limits on both sides of what the handlers let through.        *)
(***************************************************************************)
RECURSIVE SeqsUpTo(_)
SeqsUpTo(n) ==
  IF n = 0 THEN {<<>>}
  ELSE SeqsUpTo(n - 1)
         \cup {Append(q, x) : q \in {r \in SeqsUpTo(n - 1) : Len(r) = n - 1},
                              x \in 1..2}

PaginatePages == (-1)..MaxPage

PaginateLimits == {-1} \cup 1..(MaxLimit + 1)

InitPaginate ==
  /\ users = MockUsers(0)
  /\ products = MockProducts(0)
  /\ \E page \in PaginatePages, limit \in PaginateLimits :
       req = [path |-> "paginate", query |-> NoQuery,
              args |-> [page |-> page, limit |-> limit]]
  /\ res = NoResponse
  /\ \E array \in SeqsUpTo(MaxLen) \cup {users, products} :
       fed = [called |-> FALSE, array |-> array]
  /\ client = NoClient
  /\ hits = NoHits

Paginate ==
  /\ Routed("paginate")
  /\ res' = Json(paginate(fed.array, req.args.page, req.args.limit))
  /\ fed' = Fed(fed.array)
  /\ UNCHANGED <<users, products, req, client, hits>>

SpecPaginate == InitPaginate /\ [][Paginate]_vars

(***************************************************************************)
(* A caller walking a sequence by following next from page 1, as the       *)
(* readme's navigation test does: it asks for a page, keeps its data, and  *)
(* goes on to next.page while the answer has a next.                       *)
(***************************************************************************)
InitFollow ==
  /\ users = MockUsers(0)
  /\ products = MockProducts(0)
  /\ req = NoRequest
  /\ res = NoResponse
  /\ \E array \in SeqsUpTo(MaxLen) \cup {users, products} :
       fed = [called |-> FALSE, array |-> array]
  /\ \E limit \in 1..MaxLimit :
       client = [phase |-> "ready", limit |-> limit, page |-> 1,
                 collected |-> <<>>, visited |-> <<>>]
  /\ hits = NoHits

FollowNext ==
  /\ client.phase = "ready"
  /\ \E result \in {paginate(fed.array, client.page, client.limit)} :
       /\ res' = Json(result)
       /\ client' = [client EXCEPT
                       !.collected = @ \o result.data,
                       !.visited = Append(@, client.page),
                       !.page = IF "next" \in DOMAIN result
                                THEN result.next.page ELSE @,
                       !.phase = IF "next" \in DOMAIN result
                                 THEN "ready" ELSE "done"]
  /\ fed' = Fed(fed.array)
  /\ UNCHANGED <<users, products, req, hits>>

SpecFollow == InitFollow /\ [][FollowNext]_vars

(***************************************************************************)
(* A client walking GET /api/users/cursor as the guide describes: start at *)
(* cursor 0, pass the nextCursor of the previous response, stop when       *)
(* hasMore is false.  The environment may append users with larger ids.    *)
(***************************************************************************)
WalkLimits == {1, 7, 10, 33, 50, 100, 101}

Ids(array) == [i \in 1..Len(array) |-> array[i].id]

InitWalk ==
  /\ \E seed \in 0..MaxSeed :
       users = MockUsers(seed) /\ products = MockProducts(seed)
  /\ req = NoRequest
  /\ res = NoResponse
  /\ fed = NotFed
  /\ \E limit \in WalkLimits :
       client = [phase |-> "ready", limit |-> limit, cursor |-> 0,
                 received |-> <<>>, snapshot |-> {}]
  /\ hits = NoHits

ClientSend ==
  /\ client.phase = "ready"
  /\ req' = [path |-> "/api/users/cursor",
             query |-> [cursor |-> NumberToString(client.cursor),
                        limit |-> NumberToString(client.limit)]]
  /\ res' = NoResponse
  /\ client' = [client EXCEPT
                  !.phase = "waiting",
                  !.snapshot = IF client.received = <<>> /\ client.cursor = 0
                               THEN {users[i].id : i \in 1..Len(users)}
                               ELSE @]
  /\ UNCHANGED <<users, products, fed, hits>>

ClientReceive ==
  /\ client.phase = "waiting"
  /\ res # NoResponse
  /\ LET body == res.body
         more == body.hasMore /\ body.nextCursor # Null
     IN  client' = [client EXCEPT
                      !.received = @ \o Ids(body.data),
                      !.cursor = IF more THEN body.nextCursor.n ELSE @,
                      !.phase = IF more THEN "ready" ELSE "done"]
  /\ UNCHANGED <<users, products, req, res, fed, hits>>

\* a user with the next sequential id is appended to the collection
AppendUser ==
  /\ Len(users) < NumUsers + MaxAppend
  /\ users' = Append(users, MockUser(0, Len(users)))
  /\ UNCHANGED <<products, req, res, fed, client, hits>>

NextWalk == ClientSend \/ GetApiUsersCursor \/ ClientReceive \/ AppendUser

SpecWalk == InitWalk /\ [][NextWalk]_vars

(***************************************************************************)
(* The server answering one request after another.  A handler is           *)
(* synchronous: it runs from its first statement to res.json without       *)
(* yielding, so requests in flight at the same time are handled one whole  *)
(* handler at a time, in any order.                                        *)
(***************************************************************************)
ServeRequests ==
  Request("/api/users", FewPageQueries)
    \cup Request("/api/products", FewPageQueries)
    \cup Request("/api/users/search",
           {q @@ p : q \in Opt("q", {"user", "Tokyo"}),
                     p \in Opt("page", {"2", "0"})})
    \cup Request("/api/products/filter",
           {c @@ lo @@ l : c \in Opt("category", {"electronics", "Invalid"}),
                           lo \in Opt("minPrice", {"100", "abc"}),
                           l \in Opt("limit", {"3", "-2"})})
    \cup Request("/api/products/sorted",
           {f @@ o @@ l : f \in Opt("sortBy", {"price", "name", "color"}),
                          o \in Opt("order", {"desc"}),
                          l \in Opt("limit", {"3", "51"})})
    \cup Request("/api/users/cursor",
           {c @@ l : c \in Opt("cursor", {"95", "100", "-3", "abc"}),
                     l \in Opt("limit", {"10", "-1", "0"})})

InitServe ==
  /\ \E seed \in 0..MaxSeed :
       users = MockUsers(seed) /\ products = MockProducts(seed)
  /\ req = NoRequest
  /\ res = NoResponse
  /\ fed = NotFed
  /\ client = NoClient
  /\ hits = NoHits

\* the next request reaches the server once the one before it is answered
Receive ==
  /\ req = NoRequest \/ res # NoResponse
  /\ req' \in ServeRequests
  /\ res' = NoResponse
  /\ fed' = NotFed
  /\ UNCHANGED <<users, products, client, hits>>

NextServe ==
  \/ Receive
  \/ GetApiUsers
  \/ GetApiProducts
  \/ GetApiUsersSearch
  \/ GetApiProductsFilter
  \/ GetApiProductsSorted
  \/ GetApiUsersCursor

SpecServe == InitServe /\ [][NextServe]_vars

(***************************************************************************)
(* The rate limiters.  rateLimit(options) keeps, for each client (IP), the *)
(* number of requests that reached it in the current window; a request     *)
(* that takes the number above max is answered 429 with the message and    *)
(* goes no further, and the number starts again from zero when the window  *)
(* (windowMs) expires.  generalLimiter is installed with app.use before    *)
(* every route; strictLimiter stands in front of the login handler only.   *)
(* The specifications above are those of a client within the general       *)
(* limit.  Time is not measured: a window expires at any moment.           *)
(***************************************************************************)
GeneralMax == 100

GeneralMessage == "Too many requests from this IP, please try again later."

StrictMax == 5

StrictMessage == "Too many attempts, please slow down."

\* requests sent beyond a limit before the tester stops
MaxOver == 2

TooMany(message) == [status |-> 429, body |-> message]

\* a limiter that turns away the request that reaches max
LimitedAtMax(count, max) == count + 1 >= max

\* the request is counted, then turned away when the count exceeds max
Limited(count, max) == count + 1 > max

LoginBodies == {[username |-> "test", password |-> "123"]}

LimitRequests ==
  {[path |-> "/api/login", method |-> "POST", query |-> NoQuery, body |-> b] :
     b \in LoginBodies}
    \cup {[path |-> "/api/test-general-limit", method |-> "GET",
           query |-> NoQuery]}

\* the tester of the readme: sent and passed count its login requests since
\* the strict window opened, all of them and those the general limiter let by
InitLimit ==
  /\ \E seed \in 0..MaxSeed :
       users = MockUsers(seed) /\ products = MockProducts(seed)
  /\ req = NoRequest
  /\ res = NoResponse
  /\ fed = NotFed
  /\ client = [phase |-> "idle", sent |-> 0, passed |-> 0, expired |-> FALSE]
  /\ hits = NoHits

TesterSend ==
  /\ client.phase = "idle"
  /\ hits.general < GeneralMax + MaxOver
  /\ \E r \in LimitRequests :
       /\ r.path = "/api/login" => client.sent < StrictMax + MaxOver
       /\ req' = r
  /\ res' = NoResponse
  /\ client' = [client EXCEPT !.phase = "waiting"]
  /\ UNCHANGED <<users, products, fed, hits>>

PostApiLogin ==
  /\ Routed("/api/login")
  /\ req.method = "POST"
  /\ IF Limited(hits.general, GeneralMax)
     THEN /\ res' = TooMany(GeneralMessage)
          /\ hits' = [hits EXCEPT !.general = @ + 1]
     ELSE /\ hits' = [general |-> hits.general + 1, strict |-> hits.strict + 1]
          /\ IF Limited(hits.strict, StrictMax)
             THEN res' = TooMany(StrictMessage)
             ELSE res' = Json([message |-> "Login attempt recorded",
                               username |-> req.body.username,
                               password |-> req.body.password,
                               note |-> "Try hitting this endpoint 6 times in a minute to see rate limiting in action"])
  /\ UNCHANGED <<users, products, req, fed, client>>

\* the two time fields of the answer are left out
GetApiTestGeneralLimit ==
  /\ Routed("/api/test-general-limit")
  /\ req.method = "GET"
  /\ hits' = [hits EXCEPT !.general = @ + 1]
  /\ IF Limited(hits.general, GeneralMax)
     THEN res' = TooMany(GeneralMessage)
     ELSE res' = Json([message |-> "Testing general rate limiter (100 req/15min)",
                       requestsRemaining |-> GeneralMax - (hits.general + 1)])
  /\ UNCHANGED <<users, products, req, fed, client>>

TesterReceive ==
  /\ client.phase = "waiting"
  /\ res # NoResponse
  /\ client' =
       IF req.path = "/api/login" /\ hits.strict > 0
       THEN [client EXCEPT
               !.phase = "idle",
               !.sent = @ + 1,
               !.passed = IF res = TooMany(GeneralMessage) THEN @ ELSE @ + 1]
       ELSE [client EXCEPT !.phase = "idle"]
  /\ UNCHANGED <<users, products, req, res, fed, hits>>

\* 60 seconds after it opened, the strict window is over
StrictWindowExpires ==
  /\ client.phase = "idle"
  /\ hits.strict > 0
  /\ hits' = [hits EXCEPT !.strict = 0]
  /\ client' = [client EXCEPT !.sent = 0, !.passed = 0, !.expired = TRUE]
  /\ UNCHANGED <<users, products, req, res, fed>>

\* 15 minutes after it opened, the general window is over
GeneralWindowExpires ==
  /\ client.phase = "idle"
  /\ hits.general > 0
  /\ hits' = [hits EXCEPT !.general = 0]
  /\ UNCHANGED <<users, products, req, res, fed, client>>

NextLimit ==
  \/ TesterSend
  \/ PostApiLogin
  \/ GetApiTestGeneralLimit
  \/ TesterReceive
  \/ StrictWindowExpires
  \/ GeneralWindowExpires

SpecLimit == InitLimit /\ [][NextLimit]_vars

(***************************************************************************)
(* Properties.                                                             *)
(***************************************************************************)
Answered == res # NoResponse

CursorPath == "/api/users/cursor"

BasicPaths == {"/api/users", "/api/products"}

OffsetPaths ==
  BasicPaths \cup {"/api/users/search", "/api/products/filter",
                   "/api/products/sorted"}

\* the number a query parameter was given as, when it was given as one
Given(k) == parseIntParam(req.query, k)

IsGiven(k, n) == Given(k) = Num(n)

\* C1: on /api/users and /api/products a request with page=0, limit=0 or
\* limit=51 is answered with status 400 and a body {error} without data.
C1_ZeroOrOverLimitRejected ==
  (/\ req.path \in BasicPaths
   /\ Answered
   /\ IsGiven("page", 0) \/ IsGiven("limit", 0) \/ IsGiven("limit", 51))
  => (res.status = 400 /\ DOMAIN res.body = {"error"})

\* C2: every endpoint that feeds paginate rejects page < 1, limit < 1 and
\* limit > 50 with a validation error before paginate is called, and returns
\* no data page for such a request.
C2_OutOfRangeRejectedEverywhere ==
  (/\ req.path \in OffsetPaths
   /\ Answered
   /\ \/ Given("page").kind = "num" /\ Given("page").n < 1
      \/ Given("limit").kind = "num" /\ Given("limit").n < 1
      \/ Given("limit").kind = "num" /\ Given("limit").n > MaxLimit)
  => (res.status = 400 /\ ~fed.called /\ "data" \notin DOMAIN res.body)

\* a direct call of paginate with a page and a limit the validation admits
ValidCall ==
  /\ req.path = "paginate"
  /\ Answered
  /\ req.args.page >= 1
  /\ req.args.limit \in 1..MaxLimit

\* C3: for page >= 1 and limit in 1..50 the data of paginate has length
\* min(limit, max(0, total - (page-1)*limit)) and is the contiguous part of
\* the input that starts at offset (page-1)*limit, in source order.
C3_PageIsContiguousSlice ==
  ValidCall =>
    LET total == Len(fed.array)
        offset == (req.args.page - 1) * req.args.limit
        data == res.body.data
    IN  /\ Len(data) = Min(req.args.limit, Max(0, total - offset))
        /\ \A i \in 1..Len(data) : data[i] = fed.array[offset + i]

\* a last page that is only partly filled
C3_Witness ==
  /\ ValidCall
  /\ req.args.page >= 2
  /\ res.body.data # <<>>
  /\ Len(res.body.data) < req.args.limit

\* C4: for page >= 1 and limit in 1..50, totalPages is ceil(total/limit),
\* next = {page+1, limit} is present iff page < totalPages, previous =
\* {page-1, limit} is present iff page > 1, and a page beyond totalPages has
\* empty data and no next.
C4_NavigationMatchesTotalPages ==
  ValidCall =>
    LET total == Len(fed.array)
        page == req.args.page
        limit == req.args.limit
        body == res.body
        totalPages == body.totalPages
    IN  /\ totalPages * limit >= total
        /\ (totalPages - 1) * limit < total
        /\ ("next" \in DOMAIN body) <=> (page < totalPages)
        /\ "next" \in DOMAIN body
             => body.next = [page |-> page + 1, limit |-> limit]
        /\ ("previous" \in DOMAIN body) <=> (page > 1)
        /\ "previous" \in DOMAIN body
             => body.previous = [page |-> page - 1, limit |-> limit]
        /\ page > totalPages
             => (body.data = <<>> /\ "next" \notin DOMAIN body)

\* a page beyond the last one of a non-empty sequence
C4_Witness ==
  /\ ValidCall
  /\ fed.array # <<>>
  /\ req.args.page > res.body.totalPages
  /\ "previous" \in DOMAIN res.body

\* the request /api/users/cursor?cursor=95&limit=10 answered over users 1..100
C5_Case ==
  /\ req.path = CursorPath
  /\ Answered
  /\ Has(req.query, "cursor") /\ req.query.cursor = "95"
  /\ Has(req.query, "limit") /\ req.query.limit = "10"
  /\ Ids(users) = [i \in 1..NumUsers |-> i]

\* C5 as stated: cursor=95 and limit=10 over users 1..100 return users
\* 96..100, hasMore=false and nextCursor=100.
C5_LastPageCursorIs100 ==
  C5_Case =>
    /\ Ids(res.body.data) = <<96, 97, 98, 99, 100>>
    /\ res.body.hasMore = FALSE
    /\ res.body.nextCursor = Num(100)

\* C5 amended: cursor=95 and limit=10 over users 1..100 return users
\* 96..100, hasMore=false and nextCursor=null.
C5_LastPageCursorIsNull ==
  C5_Case =>
    /\ Ids(res.body.data) = <<96, 97, 98, 99, 100>>
    /\ res.body.hasMore = FALSE
    /\ res.body.nextCursor = Null

C5_Witness == C5_Case /\ Len(res.body.data) = 5

\* the cursor and the limit the cursor handler works with
CursorUsed == CursorOf(req.query)

LimitUsed == LimitOf(req.query)

UsersAfter(c) == {i \in 1..Len(users) : users[i].id > c}

\* C6: hasMore is true exactly when more than limit users have id > cursor;
\* nextCursor is the id of the last item of data when hasMore is true and
\* data is non-empty, and null when data is empty or hasMore is false.
C6_HasMoreAndNextCursor ==
  (req.path = CursorPath /\ Answered) =>
    LET body == res.body
        data == body.data
    IN  /\ body.hasMore <=> (Cardinality(UsersAfter(CursorUsed)) > LimitUsed)
        /\ (body.hasMore /\ data # <<>>)
             => body.nextCursor = Num(data[Len(data)].id)
        /\ (data = <<>> \/ ~body.hasMore) => body.nextCursor = Null

\* a full page with more behind it
C6_Witness ==
  /\ req.path = CursorPath
  /\ Answered
  /\ res.body.hasMore
  /\ res.body.nextCursor.kind = "num"
  /\ CursorUsed > 0

\* C7: for cursor c >= 0 and limit l >= 1 the data is exactly the l users
\* with the smallest ids greater than c (all of them if there are fewer), in
\* ascending id order; over users 1..100, cursor 0 / limit 10 gives
\* nextCursor 10 and cursor 10 / limit 10 gives a first item with id 11.
C7_DataIsNextSmallestIds ==
  (req.path = CursorPath /\ Answered /\ CursorUsed >= 0 /\ LimitUsed >= 1) =>
    LET data == res.body.data
        Rank(id) ==
          Cardinality({i \in UsersAfter(CursorUsed) : users[i].id <= id})
        tenEach == Has(req.query, "limit") /\ req.query.limit = "10"
    IN  /\ \A k \in 1..Len(data) :
             \E i \in UsersAfter(CursorUsed) :
               data[k] = users[i] /\ Rank(users[i].id) = k
        /\ Len(data) = Min(LimitUsed, Cardinality(UsersAfter(CursorUsed)))
        /\ (tenEach /\ Has(req.query, "cursor") /\ req.query.cursor = "0")
             => res.body.nextCursor = Num(10)
        /\ (tenEach /\ Has(req.query, "cursor") /\ req.query.cursor = "10")
             => data[1].id = 11

\* the second page of ten
C7_Witness ==
  /\ req.path = CursorPath
  /\ Answered
  /\ Has(req.query, "cursor") /\ req.query.cursor = "10"
  /\ Has(req.query, "limit") /\ req.query.limit = "10"
  /\ Len(res.body.data) = 10

\* the ids a walking client has received so far
Received == {client.received[k] : k \in 1..Len(client.received)}

\* C8: a client that walks from cursor 0 with a fixed limit >= 1 until
\* hasMore is false receives every user that existed at its first call
\* exactly once and in ascending id order, also when users with larger ids
\* are appended between its calls.
C8_WalkSeesEveryUserOnce ==
  client.phase # "off" =>
    /\ \A k \in 1..(Len(client.received) - 1) :
         client.received[k] < client.received[k + 1]
    /\ \A id \in client.snapshot :
         (client.received # <<>>
            /\ id <= client.received[Len(client.received)])
           => id \in Received
    /\ client.phase = "done" => client.snapshot \subseteq Received

\* a finished walk of several calls during which users were appended
C8_Witness ==
  /\ client.phase = "done"
  /\ client.cursor > 0
  /\ Len(users) > NumUsers
  /\ Cardinality(client.snapshot) = NumUsers
  /\ client.snapshot \subseteq Received

LetterPairs == {<<CharAt(UpperChars, k), CharAt(LowerChars, k)>> : k \in 1..26}

\* two characters that differ at most in case
SameLetter(a, b) ==
  a = b \/ <<a, b>> \in LetterPairs \/ <<b, a>> \in LetterPairs

SameIgnoringCase(s, t) ==
  Len(s) = Len(t) /\ \A j \in 1..Len(s) : SameLetter(CharAt(s, j), CharAt(t, j))

ContainsIgnoringCase(s, t) ==
  \E off \in 0..(Len(s) - Len(t)) :
    \A j \in 1..Len(t) : SameLetter(CharAt(s, off + j), CharAt(t, j))

\* C9: for every numeric minPrice and maxPrice in the query, 0 included, the
\* filter keeps exactly the products with minPrice <= price <= maxPrice,
\* restricted to the category (ignoring case) when one is given; minPrice is
\* 0 and maxPrice unbounded only when absent or non-numeric.
C9_FilterKeepsPriceRange ==
  (req.path = "/api/products/filter" /\ Answered) =>
    LET lo == IF Given("minPrice").kind = "num" THEN Given("minPrice").n
              ELSE 0
        bounded == Given("maxPrice").kind = "num"
        category == StringParam(req.query, "category", "")
        Kept(p) ==
          /\ lo <= p.price
          /\ bounded => p.price <= Given("maxPrice").n
          /\ category # "" => SameIgnoringCase(p.category, category)
    IN  fed.called /\ fed.array = SelectSeq(products, Kept)

\* the term the search handler was given
TermUsed == StringParam(req.query, "q", "")

\* C10: search is case-insensitive and order-preserving: the result is the
\* same for every other casing of the term, it is exactly the users whose
\* name, email or city contains the term ignoring case, in the order of the
\* collection, and the empty term returns all users.
C10_SearchIgnoresCaseKeepsOrder ==
  (req.path = "/api/users/search" /\ Answered) =>
    LET found == fed.array
        Hit(user) ==
          \/ ContainsIgnoringCase(user.name, TermUsed)
          \/ ContainsIgnoringCase(user.email, TermUsed)
          \/ ContainsIgnoringCase(user.city, TermUsed)
    IN  /\ fed.called
        /\ \A i \in 1..Len(users) :
             Hit(users[i]) <=> (\E k \in 1..Len(found) : found[k] = users[i])
        /\ \A k \in 1..Len(found) : \E i \in 1..Len(users) :
             found[k] = users[i]
        /\ \A k \in 1..(Len(found) - 1) : found[k].id < found[k + 1].id
        /\ \A other \in SearchTexts :
             SameIgnoringCase(other, TermUsed)
               => SearchFilter(users, other) = found
        /\ TermUsed = "" => found = users

\* an upper-case city that some users live in and others do not
C10_Witness ==
  /\ req.path = "/api/users/search"
  /\ Answered
  /\ TermUsed = "CHICAGO"
  /\ fed.array # <<>>
  /\ Len(fed.array) < Len(users)

\* C11: GET /api/users/search with q = "User 1" matches User 1, User 10,
\* User 11 and the other users whose number starts with 1, so its total is
\* greater than zero.
C11_UserSpaceOneMatches ==
  (req.path = "/api/users/search" /\ Answered /\ TermUsed = "User 1") =>
    /\ res.body.total > 0
    /\ \A id \in {1, 10, 11} : \E k \in 1..Len(fed.array) : fed.array[k].id = id

\* the sort field and the direction the sort handler works with
SortByUsed == StringParam(req.query, "sortBy", "id")

OrderUsed == StringParam(req.query, "order", "asc")

\* a sort request for a supported field and direction, answered
C12_Case ==
  /\ req.path = "/api/products/sorted"
  /\ Answered
  /\ SortByUsed \in {"id", "name", "price", "stock"}
  /\ OrderUsed \in {"asc", "desc"}

\* the order of two products in the sort key: negative, zero or positive
KeyOrder(a, b) ==
  IF SortByUsed = "name" THEN localeCompare(a.name, b.name)
  ELSE a[SortByUsed] - b[SortByUsed]

\* C12: for sortBy in {id, name, price, stock} and order in {asc, desc} the
\* sequence fed to paginate is a permutation of products, non-decreasing
\* (asc) or non-increasing (desc) in the sort key, and products with equal
\* keys keep their insertion (id) order in both directions.
C12_SortIsStablePermutation ==
  C12_Case =>
    LET sorted == fed.array
        n == Len(sorted)
    IN  /\ fed.called
        /\ n = Len(products)
        /\ \A i \in 1..Len(products) : \E k \in 1..n : sorted[k] = products[i]
        /\ \A k \in 1..(n - 1) :
             IF OrderUsed = "asc" THEN KeyOrder(sorted[k], sorted[k + 1]) <= 0
             ELSE KeyOrder(sorted[k], sorted[k + 1]) >= 0
        /\ \A k \in 1..(n - 1) :
             sorted[k][SortByUsed] = sorted[k + 1][SortByUsed]
               => sorted[k].id < sorted[k + 1].id

\* a descending sort in which two products share the key
C12_Witness ==
  /\ C12_Case
  /\ OrderUsed = "desc"
  /\ SortByUsed = "stock"
  /\ \E k \in 1..(Len(fed.array) - 1) :
       fed.array[k].stock = fed.array[k + 1].stock
  /\ fed.array[1].stock > fed.array[Len(fed.array)].stock

\* C13: whatever query requests the server answers, valid or invalid, and in
\* whatever order, no step changes the users or the products collection: same
\* elements, same order, same field values as at process start.
C13_CollectionsUnchanged ==
  [][users' = users /\ products' = products]_vars

\* a sort request answered with an order other than the collection's own
C13_Witness ==
  /\ req.path = "/api/products/sorted"
  /\ Answered
  /\ fed.called
  /\ fed.array # products
  /\ \E seed \in 0..MaxSeed : products = MockProducts(seed)

QueryPaths == OffsetPaths \cup {CursorPath}

\* C14: every request to a query endpoint, for any values of its query
\* parameters, ends either in a success envelope or in a validation error
\* {error: message} with a client-error status; no exception leaves a handler.
C14_SuccessOrValidationError ==
  (req.path \in QueryPaths /\ Answered) =>
    \/ res.status = 200 /\ "data" \in DOMAIN res.body
    \/ res.status \in 400..499 /\ DOMAIN res.body = {"error"}

\* a login request has just been answered
LoginAnswered ==
  client.phase = "waiting" /\ req.path = "/api/login" /\ Answered

LoginRecorded ==
  res.status = 200 /\ res.body.message = "Login attempt recorded"

\* C15 as stated: inside one window of the strict limiter the client's first
\* five POST /api/login requests are answered "Login attempt recorded", the
\* sixth and every later one is rejected with a rate-limit message, and after
\* the window expires the count starts again.
C15_FirstFiveLoginsServed ==
  (LoginAnswered /\ hits.strict > 0) =>
    IF client.sent + 1 <= StrictMax THEN LoginRecorded ELSE res.status = 429

\* C15, amended: a login request of a client that has made 100 requests in
\* the general limiter's window is rejected with the general limiter's
\* message and is not counted by the strict limiter; of the login requests
\* that get past the general limiter inside one window of the strict
\* limiter, the first five are answered "Login attempt recorded" and the
\* sixth and every later one is rejected with the strict limiter's message;
\* after the strict window expires the count starts again.
C15_FirstFivePassedLoginsServed ==
  LoginAnswered =>
    IF hits.general > GeneralMax
    THEN res = TooMany(GeneralMessage) /\ hits.strict = client.passed
    ELSE /\ hits.strict = client.passed + 1
         /\ IF client.passed + 1 <= StrictMax THEN LoginRecorded
            ELSE res = TooMany(StrictMessage)

\* in a second strict window, five logins were served and the sixth is
\* rejected by the strict limiter
C15_Witness ==
  /\ LoginAnswered
  /\ client.expired
  /\ client.passed = StrictMax
  /\ res = TooMany(StrictMessage)

\* C16: GET / is answered with {message: "Server is running!", timestamp:
\* <ISO time>}, whichever handlers are registered for the path.
C16_RootSaysServerIsRunning ==
  (req.path = "/" /\ Answered) =>
    /\ res.status = 200
    /\ DOMAIN res.body = {"message", "timestamp"}
    /\ res.body.message = "Server is running!"
    /\ res.body.timestamp \in Clock

\* C17: in every answer of GET /api/users/cursor, whatever the cursor and
\* the limit (negative limits included), hasMore is true if and only if
\* nextCursor is not null.
C17_HasMoreIffNextCursor ==
  (req.path = CursorPath /\ Answered) =>
    (res.body.hasMore <=> res.body.nextCursor # Null)

\* the data of pages lo..hi of the sequence, one after the other
RECURSIVE PagesConcatRange(_, _, _, _)
PagesConcatRange(array, limit, lo, hi) ==
  IF lo > hi THEN <<>>
  ELSE IF lo = hi THEN paginate(array, lo, limit).data
  ELSE PagesConcatRange(array, limit, lo, (lo + hi) \div 2)
         \o PagesConcatRange(array, limit, (lo + hi) \div 2 + 1, hi)

PagesConcat(array, limit, n) == PagesConcatRange(array, limit, 1, n)

\* the walk has ended
Followed == client.phase = "done"

\* C18 as stated: for every sequence and every limit in 1..50 the data of
\* pages 1..totalPages, concatenated, is the sequence, and following next
\* from page 1 visits exactly pages 1..totalPages and stops with no next.
C18_NextVisitsAllPages ==
  Followed =>
    /\ PagesConcat(fed.array, client.limit, res.body.totalPages) = fed.array
    /\ client.visited = [p \in 1..res.body.totalPages |-> p]
    /\ "next" \notin DOMAIN res.body

\* C18, amended: for every sequence and every limit in 1..50 the data of
\* pages 1..totalPages, concatenated, is the sequence; for a non-empty
\* sequence, following next from page 1 visits exactly pages 1..totalPages,
\* collects the sequence and stops with no next; for the empty sequence
\* totalPages is 0 and the walk visits page 1 alone, which is empty and has
\* no next.
C18_NextVisitsAllPagesOfNonEmpty ==
  Followed =>
    /\ PagesConcat(fed.array, client.limit, res.body.totalPages) = fed.array
    /\ client.collected = fed.array
    /\ "next" \notin DOMAIN res.body
    /\ IF fed.array = <<>>
       THEN res.body.totalPages = 0 /\ client.visited = <<1>>
            /\ res.body.data = <<>>
       ELSE client.visited = [p \in 1..res.body.totalPages |-> p]

\* a walk over several pages that ended on a page that is not full
C18_Witness ==
  /\ Followed
  /\ Len(client.visited) >= 3
  /\ res.body.data # <<>>
  /\ Len(res.body.data) < client.limit

====
